---- MODULE Spec2Model ----
(***************************************************************************)
(* Model of solana-alt-store: a file-backed cache of address-lookup-table  *)
(* account data (src/src/store.rs) filled through a chunked RPC loader     *)
(* (src/src/rpc_loader.rs), and the AddressLoader that resolves the        *)
(* lookups of a v0 message against the cached tables.                      *)
(*                                                                         *)
(* Pubkeys and account data are byte sequences.  A table account is laid   *)
(* out as solana_sdk lays it out: a 56-byte bincode header (u32 variant,   *)
(* u64 deactivation slot, u64 last extended slot, u8 start index,          *)
(* Option<Pubkey> authority, u16 padding) followed by 32-byte addresses.   *)
(***************************************************************************)
EXTENDS Integers, Sequences, FiniteSets, TLC

VARIABLES
    inner,      \* Store.inner: the HashMap<Pubkey, Vec<u8>>, a function on the present keys
    file,       \* the bytes of the backing file at Store.path, or NoFile
    opened,     \* TRUE once load_or_create has returned a Store
    lookups,    \* the &[MessageAddressTableLookup] handed to load_addresses
    call,       \* the last call made: its name and arguments
    ret,        \* what the last call returned
    loads,      \* the pubkey lists the last call handed to load_address_lookup_tables
    rpcLog,     \* the get_multiple_accounts calls of the last call, in order:
                \* the batch sent and what came back
    saves,      \* the save_to_path runs of the last call, in order: for each,
                \* what the file system did to it
    clones      \* the clones of the Store that update at the same time, each with
                \* its own inner map and the point its update has reached

vars == <<inner, file, opened, lookups, call, ret, loads, rpcLog, saves, clones>>

----------------------------------------------------------------------------
(* Bounds of the model *)

\* number of distinct table pubkeys a caller may name
NumKeys == 2
\* most addresses held by a cached table
MaxAddrs == 3
\* most lookups in one message
MaxLookups == 2
\* most indexes (writable and readonly together) in one message
MaxIndexes == 3
\* most pubkeys in a short update request
MaxUpdateKeys == 2

----------------------------------------------------------------------------
(* Bytes, pubkeys and the table account layout *)

PUBKEY_BYTES == 32
LOOKUP_TABLE_META_SIZE == 56

\* little-endian encoding of n on w bytes; the numbers of the model are below
\* 2^31, so every byte past the fourth is 0
LE(n, w) == [i \in 1..w |-> IF i <= 4 THEN (n \div (256 ^ (i - 1))) % 256 ELSE 0]

\* value of a little-endian byte sequence
RECURSIVE FromLE(_)
FromLE(bytes) ==
    IF bytes = <<>> THEN 0 ELSE Head(bytes) + 256 * FromLE(Tail(bytes))

\* a Pubkey: 32 bytes, here told apart by a seed
Pubkey(seed) == [i \in 1..PUBKEY_BYTES |-> (seed * 7 + i) % 256]

\* the table pubkeys callers name
Keys == {Pubkey(k) : k \in 1..NumKeys}

\* the addresses tables hold
Address(n) == Pubkey(100 + n)

RECURSIVE Flatten(_)
Flatten(seqs) ==
    IF seqs = <<>> THEN <<>> ELSE Head(seqs) \o Flatten(Tail(seqs))

\* header of an initialized table without authority, zero-padded to 56 bytes
TableHeader ==
    LE(1, 4) \o [i \in 1..8 |-> 255] \o LE(0, 8) \o <<0>> \o <<0>> \o LE(0, 2)
        \o [i \in 1..(LOOKUP_TABLE_META_SIZE - 24) |-> 0]

\* account data of a table holding the given addresses
TableData(addresses) == TableHeader \o Flatten(addresses)

\* the table of n addresses whose first address is Address(from)
TableOf(from, n) == TableData([i \in 1..n |-> Address(from + i - 1)])

\* a table account cut one byte short of its last address
SlopData == SubSeq(TableOf(1, 1), 1, LOOKUP_TABLE_META_SIZE + PUBKEY_BYTES - 1)

\* the account data a Store may hold for a table pubkey
Blobs == {TableOf(1, MaxAddrs), TableOf(MaxAddrs, 1), SlopData}

\* the account data the chain serves while a Store is being updated: a table
\* and a shorter account that is no table
SourceBlobs == {TableOf(1, MaxAddrs), SlopData}

NoFile == [exists |-> FALSE, bytes |-> <<>>]
FileOf(bytes) == [exists |-> TRUE, bytes |-> bytes]

EmptyMap == <<>>

Ok(v) == [tag |-> "Ok", value |-> v]
Err(e) == [tag |-> "Err", error |-> e]
NotCalled == [tag |-> "None"]

----------------------------------------------------------------------------
(* AddressLookupTable::deserialize, as load_addresses uses it *)

\* bincode reads ProgramState: the u32 variant, then for a LookupTable the meta
\* with its Option<Pubkey> tag at byte 22 (offsets from 1)
ProgramStateOk(data) ==
    /\ Len(data) >= 4
    /\ FromLE(SubSeq(data, 1, 4)) = 1
    /\ Len(data) >= 22
    /\ \/ data[22] = 0 /\ Len(data) >= 24
       \/ data[22] = 1 /\ Len(data) >= LOOKUP_TABLE_META_SIZE

\* the addresses are the bytes after the meta, cast to a slice of Pubkeys
Deserialize(data) ==
    IF /\ ProgramStateOk(data)
       /\ Len(data) >= LOOKUP_TABLE_META_SIZE
       /\ (Len(data) - LOOKUP_TABLE_META_SIZE) % PUBKEY_BYTES = 0
    THEN Ok([addresses |->
                [i \in 1..((Len(data) - LOOKUP_TABLE_META_SIZE) \div PUBKEY_BYTES) |->
                    SubSeq(data,
                           LOOKUP_TABLE_META_SIZE + (i - 1) * PUBKEY_BYTES + 1,
                           LOOKUP_TABLE_META_SIZE + i * PUBKEY_BYTES)]])
    ELSE Err("InvalidAccountData")

----------------------------------------------------------------------------
(* impl AddressLoader for &Store *)

\* one `for index in &lookup.*_indexes` loop: push alt.addresses.get(index)
\* onto acc, or stop at the first index that get() answers None for
RECURSIVE LoadIndexesReversed(_, _, _)
LoadIndexesReversed(addresses, indexes, acc) ==
    IF indexes = <<>> THEN Ok(acc)
    ELSE IF Head(indexes) < Len(addresses)
         THEN LoadIndexesReversed(addresses, Tail(indexes),
                                  <<addresses[Head(indexes) + 1]>> \o acc)
         ELSE Err("InvalidLookupIndex")

RECURSIVE LoadIndexesOffByOne(_, _, _)
LoadIndexesOffByOne(addresses, indexes, acc) ==
    IF indexes = <<>> THEN Ok(acc)
    ELSE IF Head(indexes) + 1 < Len(addresses)
         THEN LoadIndexesOffByOne(addresses, Tail(indexes),
                                  Append(acc, addresses[Head(indexes) + 1]))
         ELSE Err("InvalidLookupIndex")

RECURSIVE LoadIndexes(_, _, _)
LoadIndexes(addresses, indexes, acc) ==
    IF indexes = <<>> THEN Ok(acc)
    ELSE IF Head(indexes) < Len(addresses)
         THEN LoadIndexes(addresses, Tail(indexes),
                          Append(acc, addresses[Head(indexes) + 1]))
         ELSE Err("InvalidLookupIndex")

\* the loop with the accumulators declared inside it
RECURSIVE LoadLoopFreshVectors(_, _, _, _)
LoadLoopFreshVectors(map, rest, writable, readonly) ==
    IF rest = <<>> THEN Ok([writable |-> writable, readonly |-> readonly])
    ELSE LET lookup == Head(rest) IN
         IF lookup.account_key \notin DOMAIN map
         THEN Err("LookupTableAccountNotFound")
         ELSE LET alt == Deserialize(map[lookup.account_key]) IN
              IF alt.tag = "Err" THEN Err("InvalidAccountData")
              ELSE LET w == LoadIndexes(alt.value.addresses,
                                        lookup.writable_indexes, <<>>) IN
                   IF w.tag = "Err" THEN w
                   ELSE LET r == LoadIndexes(alt.value.addresses,
                                             lookup.readonly_indexes, <<>>) IN
                        IF r.tag = "Err" THEN r
                        ELSE LoadLoopFreshVectors(map, Tail(rest), w.value, r.value)

\* the loop with `continue` where the code returns LookupTableAccountNotFound
RECURSIVE LoadLoopSkipMissing(_, _, _, _)
LoadLoopSkipMissing(map, rest, writable, readonly) ==
    IF rest = <<>> THEN Ok([writable |-> writable, readonly |-> readonly])
    ELSE LET lookup == Head(rest) IN
         IF lookup.account_key \notin DOMAIN map
         THEN LoadLoopSkipMissing(map, Tail(rest), writable, readonly)
         ELSE LET alt == Deserialize(map[lookup.account_key]) IN
              IF alt.tag = "Err" THEN Err("InvalidAccountData")
              ELSE LET w == LoadIndexes(alt.value.addresses,
                                        lookup.writable_indexes, writable) IN
                   IF w.tag = "Err" THEN w
                   ELSE LET r == LoadIndexes(alt.value.addresses,
                                             lookup.readonly_indexes, readonly) IN
                        IF r.tag = "Err" THEN r
                        ELSE LoadLoopSkipMissing(map, Tail(rest), w.value, r.value)

\* a loop that goes on after a fault and reports the last one it met
RECURSIVE LoadLoopLastFault(_, _, _, _)
LoadLoopLastFault(map, rest, writable, readonly) ==
    IF rest = <<>> THEN Ok([writable |-> writable, readonly |-> readonly])
    ELSE LET lookup == Head(rest)
             later == LoadLoopLastFault(map, Tail(rest), writable, readonly)
             fault(e) == IF later.tag = "Err" THEN later ELSE e
         IN
         IF lookup.account_key \notin DOMAIN map
         THEN fault(Err("LookupTableAccountNotFound"))
         ELSE LET alt == Deserialize(map[lookup.account_key]) IN
              IF alt.tag = "Err" THEN fault(Err("InvalidAccountData"))
              ELSE LET w == LoadIndexes(alt.value.addresses,
                                        lookup.writable_indexes, writable) IN
                   IF w.tag = "Err" THEN fault(w)
                   ELSE LET r == LoadIndexes(alt.value.addresses,
                                             lookup.readonly_indexes, readonly) IN
                        IF r.tag = "Err" THEN fault(r)
                        ELSE LoadLoopLastFault(map, Tail(rest), w.value, r.value)

\* the `for lookup in lookups` loop with its two accumulators
RECURSIVE LoadLoop(_, _, _, _)
LoadLoop(map, rest, writable, readonly) ==
    IF rest = <<>> THEN Ok([writable |-> writable, readonly |-> readonly])
    ELSE LET lookup == Head(rest) IN
         IF lookup.account_key \notin DOMAIN map
         THEN Err("LookupTableAccountNotFound")
         ELSE LET alt == Deserialize(map[lookup.account_key]) IN
              IF alt.tag = "Err" THEN Err("InvalidAccountData")
              ELSE LET w == LoadIndexes(alt.value.addresses,
                                        lookup.writable_indexes, writable) IN
                   IF w.tag = "Err" THEN w
                   ELSE LET r == LoadIndexes(alt.value.addresses,
                                             lookup.readonly_indexes, readonly) IN
                        IF r.tag = "Err" THEN r
                        ELSE LoadLoop(map, Tail(rest), w.value, r.value)

load_addresses(map, ls) == LoadLoop(map, ls, <<>>, <<>>)

----------------------------------------------------------------------------
(* bincode layout of StoreInner: u64 entry count, then per entry the 32 key *)
(* bytes, the u64 length of the data and the data                          *)

\* a u64 read from 8 little-endian bytes; anything past 2^24 exceeds every
\* file of the model and is read as that large
U64(bytes) ==
    IF \A i \in 4..8 : bytes[i] = 0 THEN FromLE(SubSeq(bytes, 1, 3)) ELSE 16777216

\* every order a HashMap may iterate its keys in
Orders(S) ==
    {o \in [1..Cardinality(S) -> S] :
        \A i, j \in 1..Cardinality(S) : i # j => o[i] # o[j]}

\* the order a map iterates in, given the order its hasher puts all keys in
IterOrder(map, rank) == SelectSeq(rank, LAMBDA k : k \in DOMAIN map)

RECURSIVE SerializeEntries(_, _)
SerializeEntries(map, order) ==
    IF order = <<>> THEN <<>>
    ELSE Head(order) \o LE(Len(map[Head(order)]), 8) \o map[Head(order)]
            \o SerializeEntries(map, Tail(order))

Serialize(map, order) == LE(Len(order), 8) \o SerializeEntries(map, order)

\* an insert that keeps the entry a key already has
InsertIfAbsent(map, pubkey, data) == map @@ (pubkey :> data)

\* HashMap::insert
Insert(map, pubkey, data) == (pubkey :> data) @@ map

\* bincode::deserialize_from: reads the entries it was promised, fails at a
\* short read, ignores what follows the last entry
RECURSIVE ParseEntries(_, _, _, _)
ParseEntries(bytes, pos, n, map) ==
    IF n = 0 THEN Ok(map)
    ELSE IF pos + PUBKEY_BYTES + 8 > Len(bytes) THEN Err("StoreCorrupt")
    ELSE LET pubkey == SubSeq(bytes, pos + 1, pos + PUBKEY_BYTES)
             len == U64(SubSeq(bytes, pos + PUBKEY_BYTES + 1, pos + PUBKEY_BYTES + 8))
             from == pos + PUBKEY_BYTES + 8
         IN  IF from + len > Len(bytes) THEN Err("StoreCorrupt")
             ELSE ParseEntries(bytes, from + len, n - 1,
                               Insert(map, pubkey, SubSeq(bytes, from + 1, from + len)))

ParseFile(bytes) ==
    IF Len(bytes) < 8 THEN Err("StoreCorrupt")
    ELSE ParseEntries(bytes, 8, U64(SubSeq(bytes, 1, 8)), EmptyMap)

\* a write from offset 0 into a file opened without truncate
WriteOver(old, new) == new \o SubSeq(old, Len(new) + 1, Len(old))

\* a write at the offset a file handle has reached
WriteAt(old, off, new) ==
    SubSeq(old, 1, off) \o new \o SubSeq(old, off + Len(new) + 1, Len(old))

----------------------------------------------------------------------------
(* Store: IO operations *)

\* the orders the hasher may put the table pubkeys in
Ranks == Orders(Keys)

\* one of them when the map has no two of the keys to put in order, else all
RanksOver(keys) == IF Cardinality(keys) <= 1 THEN {CHOOSE o \in Ranks : TRUE} ELSE Ranks

\* std::io::BufWriter::new: the buffer holds 8 KiB
BUF_WRITER_CAPACITY == 8192

\* the write_all calls serialize_into makes on the BufWriter: one of 8 bytes
\* for each u64, one per byte for each byte of a Pubkey or of a Vec<u8>
WriteRuns(map, order) ==
    <<[len |-> 8, each |-> 8]>> \o
    Flatten([i \in 1..Len(order) |->
                <<[len |-> PUBKEY_BYTES, each |-> 1],
                  [len |-> 8, each |-> 8],
                  [len |-> Len(map[order[i]]), each |-> 1]>>])

\* BufWriter over those calls: a call that does not fit the spare room
\* flushes the buffer first; buffered is what the buffer holds, blocks the
\* lengths of the flushes so far
RECURSIVE FillBuffer(_, _, _)
FillBuffer(runs, buffered, blocks) ==
    IF runs = <<>> THEN [buffered |-> buffered, blocks |-> blocks]
    ELSE LET run == Head(runs) IN
         IF buffered + run.len <= BUF_WRITER_CAPACITY
         THEN FillBuffer(Tail(runs), buffered + run.len, blocks)
         ELSE IF run.each = run.len
         THEN FillBuffer(Tail(runs), run.len, Append(blocks, buffered))
         ELSE LET over == run.len - (BUF_WRITER_CAPACITY - buffered)
                  last == ((over - 1) % BUF_WRITER_CAPACITY) + 1
                  full == (over - last) \div BUF_WRITER_CAPACITY
              IN  FillBuffer(Tail(runs), last,
                             blocks \o [i \in 1..(full + 1) |-> BUF_WRITER_CAPACITY])

\* the lengths of the writes that reach the file, in order: the flushes
\* serialize_into causes, then the flush of the rest when the BufWriter is
\* dropped
WriteBlocks(map, order) ==
    LET filled == FillBuffer(WriteRuns(map, order), 0, <<>>)
    IN  Append(filled.blocks, filled.buffered)

RECURSIVE SumTo(_, _)
SumTo(f, n) == IF n = 0 THEN 0 ELSE f[n] + SumTo(f, n - 1)

\* where the write that starts at offset off ends; off itself when none of
\* the writes starts there
WriteEnd(blocks, off) ==
    LET at == {i \in 1..Len(blocks) : SumTo(blocks, i - 1) = off /\ blocks[i] > 0}
    IN  IF at = {} THEN off ELSE off + blocks[CHOOSE i \in at : TRUE]

\* how many bytes serialize_into itself sends to the file: a failure past
\* them happens in the drop of the BufWriter, which discards it
FlushedBeforeDrop(map, order) ==
    LET blocks == WriteBlocks(map, order)
    IN  Len(Serialize(map, order)) - blocks[Len(blocks)]

\* what the file system does to one call: everything works ("ok"), the open
\* fails ("open_err"), every write fails once `cut` bytes are in the file
\* ("write_err"), or the write that starts at offset `cut` fails once, writes
\* nothing, and the writes after it work ("write_once")
Io(kind, cut) == [kind |-> kind, cut |-> cut]

\* the lengths at which the writes of a single call fail: nothing written,
\* the entry count written, the count and part of the first pubkey written
WriteCuts == {0, 8, 20}

\* the length at which the writes fail over the life of a Store: the entry
\* count written
LifeCuts == {8}

\* the offsets at which a write fails once
WriteOnces == {0}

IoOutcomes(cuts, onces) ==
    {Io("ok", 0), Io("open_err", 0)}
        \cup {Io("write_err", cut) : cut \in cuts}
        \cup {Io("write_once", off) : off \in onces}

\* save_to_path: the file it leaves and what it returns.  The open neither
\* creates nor truncates.  A write that fails while serialize_into runs comes
\* back as the error, and the BufWriter, dropped on the way out, sends the
\* buffer it failed on once more: that write goes through when the failure was
\* a single one.  A write that fails when the BufWriter is dropped after
\* serialize_into returned is lost and the call returns Ok.  The bytes written
\* stay in the file.
save_to_path(map, f, io, order) ==
    LET bytes == Serialize(map, order)
        flushed == FlushedBeforeDrop(map, order)
        written(n) == FileOf(WriteOver(f.bytes, SubSeq(bytes, 1, n)))
    IN
    IF ~f.exists \/ io.kind = "open_err"
    THEN [res |-> Err("PersistFailed"), file |-> f]
    ELSE IF io.kind = "write_err" /\ io.cut < Len(bytes)
    THEN [res |-> IF io.cut < flushed THEN Err("PersistFailed") ELSE Ok(<<>>),
          file |-> written(io.cut)]
    ELSE IF io.kind = "write_once" /\ WriteEnd(WriteBlocks(map, order), io.cut) > io.cut
    THEN IF io.cut < flushed
         THEN [res |-> Err("PersistFailed"),
               file |-> written(WriteEnd(WriteBlocks(map, order), io.cut))]
         ELSE [res |-> Ok(<<>>), file |-> written(io.cut)]
    ELSE [res |-> Ok(<<>>), file |-> written(Len(bytes))]

\* a load_or_create that starts an empty Store when the file does not load
load_or_createFallsBack(f, io) ==
    IF io.kind = "open_err"
    THEN [res |-> Err("IoError"), file |-> f]
    ELSE IF f.exists /\ ParseFile(f.bytes).tag = "Ok"
    THEN [res |-> ParseFile(f.bytes), file |-> f]
    ELSE [res |-> Ok(EmptyMap), file |-> FileOf(<<>>)]

\* what the file system does to one load_or_create: its one call on the
\* file, the open that creates it or the open that reads it, works or fails
LoadOutcomes == {Io("ok", 0), Io("open_err", 0)}

\* load_or_create: the Store (its inner map) it returns, or the error, and
\* the file it leaves.  When the open fails, in new_with_path or in
\* load_from_path, the error comes back and nothing is created or read.
load_or_create(f, io) ==
    IF io.kind = "open_err"
    THEN [res |-> Err("IoError"), file |-> f]
    ELSE IF f.exists
    THEN [res |-> ParseFile(f.bytes), file |-> f]
    ELSE [res |-> Ok(EmptyMap), file |-> FileOf(<<>>)]

----------------------------------------------------------------------------
(* rpc_loader: load_address_lookup_tables *)

RPC_CHUNK == 100

None == [some |-> FALSE, data |-> <<>>]
Some(data) == [some |-> TRUE, data |-> data]

RpcFail == [ok |-> FALSE, accounts |-> <<>>]

Range(seq) == {seq[i] : i \in 1..Len(seq)}

\* chunks of one key more than asked
RECURSIVE ChunksOneMore(_, _)
ChunksOneMore(seq, n) ==
    IF seq = <<>> THEN <<>>
    ELSE IF Len(seq) <= n + 1 THEN <<seq>>
    ELSE <<SubSeq(seq, 1, n + 1)>> \o ChunksOneMore(SubSeq(seq, n + 2, Len(seq)), n)

\* pubkeys.chunks(100)
RECURSIVE Chunks(_, _)
Chunks(seq, n) ==
    IF seq = <<>> THEN <<>>
    ELSE IF Len(seq) <= n THEN <<seq>>
    ELSE <<SubSeq(seq, 1, n)>> \o Chunks(SubSeq(seq, n + 1, Len(seq)), n)

\* get_multiple_accounts on one batch: a transport failure, or one Option per
\* position read from one snapshot of the chain
RpcAnswers(chunk) ==
    {RpcFail} \cup
    {[ok |-> TRUE, accounts |-> [i \in 1..Len(chunk) |-> snapshot[chunk[i]]]] :
        snapshot \in [Range(chunk) -> {None} \cup {Some(b) : b \in SourceBlobs}]}

\* a zip that turns a None into an entry with no data
ZipFoundKeepsNone(chunk, accounts) ==
    LET n == IF Len(chunk) <= Len(accounts) THEN Len(chunk) ELSE Len(accounts)
    IN  [j \in 1..n |-> [pubkey |-> chunk[j], data |-> accounts[j].data]]

\* zip(pubkeys, accounts) keeping the Some entries: zip stops at the shorter
\* of the two, and the entries keep the order of their positions
ZipFound(chunk, accounts) ==
    LET n == IF Len(chunk) <= Len(accounts) THEN Len(chunk) ELSE Len(accounts)
        found == SelectSeq([i \in 1..n |-> i], LAMBDA i : accounts[i].some)
    IN  [j \in 1..Len(found) |->
            [pubkey |-> chunk[found[j]], data |-> accounts[found[j]].data]]

\* a loop that stops at a failing call and returns what it has so far
RECURSIVE LoadChunksPartial(_, _, _, _)
LoadChunksPartial(chunks, answers, result, log) ==
    IF chunks = <<>> THEN [res |-> Ok(result), log |-> log]
    ELSE IF ~Head(answers).ok
         THEN [res |-> Ok(result),
               log |-> Append(log, [keys |-> Head(chunks), answer |-> Head(answers)])]
         ELSE LoadChunksPartial(Tail(chunks), Tail(answers),
                                result \o ZipFound(Head(chunks), Head(answers).accounts),
                                Append(log, [keys |-> Head(chunks), answer |-> Head(answers)]))

\* the loop over the batches: answers[i] is what the i-th call yields; the
\* first failing call ends the function with its error
RECURSIVE LoadChunks(_, _, _, _)
LoadChunks(chunks, answers, result, log) ==
    IF chunks = <<>> THEN [res |-> Ok(result), log |-> log]
    ELSE IF ~Head(answers).ok
         THEN [res |-> Err("FetchFailed"),
               log |-> Append(log, [keys |-> Head(chunks), answer |-> Head(answers)])]
         ELSE LoadChunks(Tail(chunks), Tail(answers),
                         result \o ZipFound(Head(chunks), Head(answers).accounts),
                         Append(log, [keys |-> Head(chunks), answer |-> Head(answers)]))

load_address_lookup_tables(pubkeys, answers) ==
    LoadChunks(Chunks(pubkeys, RPC_CHUNK), answers, <<>>, <<>>)

\* every way the calls of one load can be answered, call by call
RECURSIVE AnswerSeqs(_)
AnswerSeqs(chunks) ==
    IF chunks = <<>> THEN {<<>>}
    ELSE {<<a>> \o rest : a \in RpcAnswers(Head(chunks)), rest \in AnswerSeqs(Tail(chunks))}

AnswersFor(pubkeys) == AnswerSeqs(Chunks(pubkeys, RPC_CHUNK))

----------------------------------------------------------------------------
(* Store: update operations *)

contains_key(map, pubkey) == pubkey \in DOMAIN map

\* a fetch set that keeps the present keys in Append mode too
FetchPubkeysUnfiltered(map, pubkeys, mode) == pubkeys

\* a fetch set that drops the present keys in Overwrite mode too
FetchPubkeysAlwaysFiltered(map, pubkeys, mode) ==
    SelectSeq(pubkeys, LAMBDA pubkey : ~contains_key(map, pubkey))

\* the keys update asks the loader for
FetchPubkeys(map, pubkeys, mode) ==
    IF mode = "Append"
    THEN SelectSeq(pubkeys, LAMBDA pubkey : ~contains_key(map, pubkey))
    ELSE pubkeys

\* the `for (pubkey, data) in fetched_alt_data` loop of insert_table_data:
\* the entries are inserted one by one from first to last.  The list is split
\* in halves, and the first half compared with the empty map, only so that
\* the first half is evaluated before the second and the evaluation stays
\* shallow; both branches insert the second half into the first.
RECURSIVE InsertAll(_, _)
InsertAll(map, fetched) ==
    IF fetched = <<>> THEN map
    ELSE IF Len(fetched) = 1
         THEN Insert(map, fetched[1].pubkey, fetched[1].data)
         ELSE LET half == Len(fetched) \div 2
                  first == InsertAll(map, SubSeq(fetched, 1, half))
                  rest == SubSeq(fetched, half + 1, Len(fetched))
              IN  IF first = EmptyMap
                  THEN InsertAll(EmptyMap, rest)
                  ELSE InsertAll(first, rest)

\* an update whose save_to_path stands after the `if`, not inside it
updateSavesAlways(map, f, pubkeys, mode, answers, io, rank) ==
    LET fetch_pubkeys == FetchPubkeys(map, pubkeys, mode) IN
    IF fetch_pubkeys = <<>>
    THEN LET saved == save_to_path(map, f, io, IterOrder(map, rank))
         IN  [inner |-> map, file |-> saved.file, res |-> saved.res,
              loads |-> <<>>, log |-> <<>>, saves |-> <<io>>]
    ELSE LET loaded == load_address_lookup_tables(fetch_pubkeys, answers) IN
         IF loaded.res.tag = "Err"
         THEN [inner |-> map, file |-> f, res |-> loaded.res,
               loads |-> <<fetch_pubkeys>>, log |-> loaded.log, saves |-> <<>>]
         ELSE LET merged == InsertAll(map, loaded.res.value)
                  saved == save_to_path(merged, f, io, IterOrder(merged, rank))
              IN  [inner |-> merged, file |-> saved.file, res |-> saved.res,
                   loads |-> <<fetch_pubkeys>>, log |-> loaded.log, saves |-> <<io>>]

\* an update that in Overwrite mode first forgets the keys it asks for
updateForgetsAsked(map, f, pubkeys, mode, answers, io, rank) ==
    LET fetch_pubkeys == FetchPubkeys(map, pubkeys, mode) IN
    IF fetch_pubkeys = <<>>
    THEN [inner |-> map, file |-> f, res |-> Ok(<<>>),
          loads |-> <<>>, log |-> <<>>, saves |-> <<>>]
    ELSE LET loaded == load_address_lookup_tables(fetch_pubkeys, answers) IN
         IF loaded.res.tag = "Err"
         THEN [inner |-> map, file |-> f, res |-> loaded.res,
               loads |-> <<fetch_pubkeys>>, log |-> loaded.log, saves |-> <<>>]
         ELSE LET kept == [k \in DOMAIN map \ Range(fetch_pubkeys) |-> map[k]]
                  merged == InsertAll(kept, loaded.res.value)
                  saved == save_to_path(merged, f, io, IterOrder(merged, rank))
              IN  [inner |-> merged, file |-> saved.file, res |-> saved.res,
                   loads |-> <<fetch_pubkeys>>, log |-> loaded.log, saves |-> <<io>>]

\* update as a whole: the map, the file, the result and what was observed of
\* the loader and of save_to_path
update(map, f, pubkeys, mode, answers, io, rank) ==
    LET fetch_pubkeys == FetchPubkeys(map, pubkeys, mode) IN
    IF fetch_pubkeys = <<>>
    THEN [inner |-> map, file |-> f, res |-> Ok(<<>>),
          loads |-> <<>>, log |-> <<>>, saves |-> <<>>]
    ELSE LET loaded == load_address_lookup_tables(fetch_pubkeys, answers) IN
         IF loaded.res.tag = "Err"
         THEN [inner |-> map, file |-> f, res |-> loaded.res,
               loads |-> <<fetch_pubkeys>>, log |-> loaded.log, saves |-> <<>>]
         ELSE LET merged == InsertAll(map, loaded.res.value)
                  saved == save_to_path(merged, f, io, IterOrder(merged, rank))
              IN  [inner |-> merged, file |-> saved.file, res |-> saved.res,
                   loads |-> <<fetch_pubkeys>>, log |-> loaded.log, saves |-> <<io>>]

----------------------------------------------------------------------------
(* The messages and stores resolution is checked on *)

\* u8 indexes: every position of the largest table, and the first one past it
IdxVals == 0..MaxAddrs


\* how many writable and readonly indexes each lookup of a message has
Shapes(n) ==
    {s \in [1..n -> [w : 0..MaxIndexes, r : 0..MaxIndexes]] :
        SumTo([i \in 1..n |-> s[i].w + s[i].r], n) <= MaxIndexes}

\* the message of the given shape over the given keys, its indexes taken in
\* order from flat
RECURSIVE MkLookups(_, _, _)
MkLookups(shape, ks, flat) ==
    IF shape = <<>> THEN <<>>
    ELSE LET w == Head(shape).w
             r == Head(shape).r
         IN  <<[account_key |-> Head(ks),
                writable_indexes |-> SubSeq(flat, 1, w),
                readonly_indexes |-> SubSeq(flat, w + 1, w + r)]>>
             \o MkLookups(Tail(shape), Tail(ks), SubSeq(flat, w + r + 1, Len(flat)))

LookupInputs ==
    UNION {UNION {{MkLookups(s, ks, flat) :
                        ks \in [1..n -> Keys],
                        flat \in [1..SumTo([i \in 1..n |-> s[i].w + s[i].r], n) -> IdxVals]} :
                  s \in Shapes(n)} :
           n \in 0..MaxLookups}

\* every mapping a Store can hold: some of the keys, each with some account data
Maps == UNION {[present -> Blobs] : present \in SUBSET Keys}

----------------------------------------------------------------------------
(* Resolution on its own: a Store holding any mapping, any message *)

InitResolve ==
    /\ inner \in Maps
    /\ file \in {FileOf(Serialize(inner, order)) : order \in Orders(DOMAIN inner)}
    /\ opened = TRUE
    /\ lookups \in LookupInputs
    /\ call = [op |-> "none", pubkeys |-> <<>>, mode |-> "-"]
    /\ ret = NotCalled
    /\ loads = <<>>
    /\ rpcLog = <<>>
    /\ saves = <<>>
    /\ clones = <<>>

Resolve ==
    /\ call' = [op |-> "load_addresses", pubkeys |-> <<>>, mode |-> "-"]
    /\ ret' = load_addresses(inner, lookups)
    /\ loads' = <<>>
    /\ rpcLog' = <<>>
    /\ saves' = <<>>
    /\ UNCHANGED <<inner, file, opened, lookups, clones>>

NextResolve == Resolve

SpecResolve == InitResolve /\ [][NextResolve]_vars

----------------------------------------------------------------------------
(* Properties of resolution (SpecResolve) *)

Resolved == ret.tag \in {"Ok", "Err"}

\* the decoded address sequence of the table a lookup names
TableOfLookup(lookup) == Deserialize(inner[lookup.account_key])

\* a lookup whose table is present and decodes
Decodable(lookup) ==
    /\ lookup.account_key \in DOMAIN inner
    /\ TableOfLookup(lookup).tag = "Ok"

AddressesOf(lookup) == TableOfLookup(lookup).value.addresses

AllIndexes(lookup) == lookup.writable_indexes \o lookup.readonly_indexes

InRange(lookup) ==
    \A i \in 1..Len(AllIndexes(lookup)) :
        AllIndexes(lookup)[i] < Len(AddressesOf(lookup))

\* the addresses at the given indexes, position by position
Picked(addresses, indexes) ==
    [i \in 1..Len(indexes) |-> addresses[indexes[i] + 1]]

\* what one lookup resolves to when resolved alone
Alone(lookup) == load_addresses(inner, <<lookup>>)

\* C1: a single lookup whose table is present, decodes and covers every index
\* resolves to exactly the addresses at its indexes, position by position:
\* same order, repeats kept, nothing else.
C1_SingleLookupPicksByIndex ==
    (/\ Resolved
     /\ Len(lookups) = 1
     /\ Decodable(lookups[1])
     /\ InRange(lookups[1]))
    => /\ ret.tag = "Ok"
       /\ ret.value.writable =
            Picked(AddressesOf(lookups[1]), lookups[1].writable_indexes)
       /\ ret.value.readonly =
            Picked(AddressesOf(lookups[1]), lookups[1].readonly_indexes)

\* the table [A1, A2, A3] asked for writable [0, 2] and readonly [1]
C1_Witness ==
    /\ Len(lookups) = 1
    /\ lookups[1].account_key \in DOMAIN inner
    /\ inner[lookups[1].account_key] = TableOf(1, 3)
    /\ lookups[1].writable_indexes = <<0, 2>>
    /\ lookups[1].readonly_indexes = <<1>>
    /\ ret = Ok([writable |-> <<Address(1), Address(3)>>,
                 readonly |-> <<Address(2)>>])

\* C2: when every lookup resolves, the writable output is the concatenation in
\* lookup order of each lookup's writable addresses, the readonly output
\* likewise, and their lengths are the summed lengths of the index lists.
C2_OutputsConcatenateInOrder ==
    (/\ Resolved
     /\ \A i \in 1..Len(lookups) : Alone(lookups[i]).tag = "Ok")
    => /\ ret.tag = "Ok"
       /\ ret.value.writable =
            Flatten([i \in 1..Len(lookups) |-> Alone(lookups[i]).value.writable])
       /\ ret.value.readonly =
            Flatten([i \in 1..Len(lookups) |-> Alone(lookups[i]).value.readonly])
       /\ Len(ret.value.writable) =
            SumTo([i \in 1..Len(lookups) |-> Len(lookups[i].writable_indexes)],
                  Len(lookups))
       /\ Len(ret.value.readonly) =
            SumTo([i \in 1..Len(lookups) |-> Len(lookups[i].readonly_indexes)],
                  Len(lookups))

\* two lookups of different tables, the first with writable and readonly
\* indexes, the second with a writable one
C2_Witness ==
    /\ ret.tag = "Ok"
    /\ Len(lookups) = 2
    /\ lookups[1].account_key # lookups[2].account_key
    /\ Len(lookups[1].writable_indexes) = 1
    /\ Len(lookups[1].readonly_indexes) = 1
    /\ Len(lookups[2].writable_indexes) = 1
    /\ Len(ret.value.writable) = 2
    /\ ret.value.writable[1] # ret.value.writable[2]

\* C3: a lookup of a key the store does not hold, every earlier lookup
\* resolving, makes the call fail with LookupTableAccountNotFound: an error
\* and nothing else, whatever the earlier lookups had accumulated.
C3_MissingTableFailsWhole ==
    Resolved =>
        \A i \in 1..Len(lookups) :
            (/\ lookups[i].account_key \notin DOMAIN inner
             /\ \A j \in 1..(i - 1) : Alone(lookups[j]).tag = "Ok")
            => ret = Err("LookupTableAccountNotFound")

\* the second lookup names an absent key after the first resolved addresses
C3_Witness ==
    /\ Len(lookups) = 2
    /\ Alone(lookups[1]).tag = "Ok"
    /\ Len(Alone(lookups[1]).value.writable) >= 1
    /\ lookups[2].account_key \notin DOMAIN inner
    /\ ret = Err("LookupTableAccountNotFound")

\* C4: with every named table present and decoding, the call fails with
\* InvalidLookupIndex exactly when some index is >= the length of its table;
\* otherwise (every index at most n-1) it succeeds.  The failure is an error
\* and nothing else.
C4_OutOfRangeIffIndexPastEnd ==
    (/\ Resolved
     /\ \A i \in 1..Len(lookups) : Decodable(lookups[i]))
    => LET past == \E i \in 1..Len(lookups) : ~InRange(lookups[i])
       IN  /\ past => ret = Err("InvalidLookupIndex")
           /\ ~past => ret.tag = "Ok"

\* a table of n >= 1 addresses asked for index n-1 and then index n
C4_Witness ==
    /\ Len(lookups) = 1
    /\ Decodable(lookups[1])
    /\ Len(AddressesOf(lookups[1])) >= 1
    /\ lookups[1].writable_indexes =
         <<Len(AddressesOf(lookups[1])) - 1, Len(AddressesOf(lookups[1]))>>
    /\ ret = Err("InvalidLookupIndex")

----------------------------------------------------------------------------
(* The Store over its life: created or loaded, then updated *)

Repeat(x, n) == [i \in 1..n |-> x]

\* the short pubkey lists update is called with
ShortInputs == UNION {[1..n -> Keys] : n \in 0..MaxUpdateKeys}

\* those that name no key twice
DistinctInputs ==
    {ks \in ShortInputs : \A i, j \in 1..Len(ks) : i # j => ks[i] # ks[j]}

\* lists of more than one batch: one key RPC_CHUNK times, then one key
LongInputs == {Repeat(k, RPC_CHUNK) \o <<l>> : k \in Keys, l \in Keys}

Modes == {"Append", "Overwrite"}

CallOf(op, pubkeys, mode) == [op |-> op, pubkeys |-> pubkeys, mode |-> mode]

Init ==
    /\ inner = EmptyMap
    /\ file = NoFile
    /\ opened = FALSE
    /\ lookups = <<>>
    /\ call = CallOf("none", <<>>, "-")
    /\ ret = NotCalled
    /\ loads = <<>>
    /\ rpcLog = <<>>
    /\ saves = <<>>
    /\ clones = <<>>

LoadOrCreate ==
    \E io \in LoadOutcomes : \E r \in {load_or_create(file, io)} :
    /\ call' = CallOf("load_or_create", <<>>, "-")
    /\ ret' = (IF r.res.tag = "Ok" THEN Ok(<<>>) ELSE r.res)
    /\ file' = r.file
    /\ inner' = (IF r.res.tag = "Ok" THEN r.res.value ELSE inner)
    /\ opened' = (opened \/ r.res.tag = "Ok")
    /\ loads' = <<>>
    /\ rpcLog' = <<>>
    /\ saves' = <<>>
    /\ UNCHANGED <<lookups, clones>>

\* update gets to save when it asked for keys and the loader returned Ok
Saving(pubkeys, mode, answers) ==
    LET fetch_pubkeys == FetchPubkeys(inner, pubkeys, mode)
    IN  /\ fetch_pubkeys # <<>>
        /\ load_address_lookup_tables(fetch_pubkeys, answers).res.tag = "Ok"

\* one call of update on the Store, with everything its environment decides:
\* the answers of the RPC node and, when update gets to save, what the file
\* system does to the save and the order the map is iterated in
UpdateWith(pubkeys, mode, cuts, onces) ==
    \E answers \in AnswersFor(FetchPubkeys(inner, pubkeys, mode)) :
        \E env \in IF Saving(pubkeys, mode, answers)
                   THEN {[io |-> Io("open_err", 0), rank |-> CHOOSE o \in Ranks : TRUE]}
                            \cup {[io |-> io, rank |-> o] :
                                    io \in IoOutcomes(cuts, onces) \ {Io("open_err", 0)},
                                    o \in RanksOver(DOMAIN inner \cup Range(pubkeys))}
                   ELSE {[io |-> Io("ok", 0), rank |-> CHOOSE o \in Ranks : TRUE]} :
            \E r \in {update(inner, file, pubkeys, mode, answers, env.io, env.rank)} :
            /\ call' = CallOf("update", pubkeys, mode)
            /\ ret' = r.res
            /\ inner' = r.inner
            /\ file' = r.file
            /\ loads' = r.loads
            /\ rpcLog' = r.log
            /\ saves' = r.saves
            /\ UNCHANGED <<opened, lookups, clones>>

Update ==
    /\ opened
    /\ \E pubkeys \in DistinctInputs, mode \in Modes : UpdateWith(pubkeys, mode, LifeCuts, {})

Next == LoadOrCreate \/ Update

Spec == Init /\ [][Next]_vars

----------------------------------------------------------------------------
(* One update, of any length, on any Store *)

\* the maps updates build from what the chain serves
SourceMaps == UNION {[present -> SourceBlobs] : present \in SUBSET Keys}

\* the files such a Store can have: the one its last save wrote, or the
\* empty file of new_with_path when no save got through since
FilesOf(map) ==
    {FileOf(Serialize(map, order)) : order \in Orders(DOMAIN map)} \cup {FileOf(<<>>)}

UpdateInputs == ShortInputs \cup LongInputs

InitUpdate ==
    /\ inner \in SourceMaps
    /\ file \in FilesOf(inner)
    /\ opened = TRUE
    /\ lookups = <<>>
    /\ call = CallOf("none", <<>>, "-")
    /\ ret = NotCalled
    /\ loads = <<>>
    /\ rpcLog = <<>>
    /\ saves = <<>>
    /\ clones = <<>>

UpdateOnce ==
    /\ call.op = "none"
    /\ \E pubkeys \in UpdateInputs, mode \in Modes : UpdateWith(pubkeys, mode, WriteCuts, WriteOnces)

NextUpdate == UpdateOnce

SpecUpdate == InitUpdate /\ [][NextUpdate]_vars

----------------------------------------------------------------------------
(* Properties of update *)

\* what the RPC log of a call says about a key
Requested(log, k) == \E i \in 1..Len(log) : k \in Range(log[i].keys)

AllAnswered(log) == \A i \in 1..Len(log) : log[i].answer.ok

\* the positions (call, place in the batch) where the node returned data for k
FoundAt(log, k) ==
    {p \in UNION {{<<i, j>> : j \in 1..Len(log[i].keys)} : i \in 1..Len(log)} :
        /\ log[p[1]].answer.ok
        /\ log[p[1]].keys[p[2]] = k
        /\ log[p[1]].answer.accounts[p[2]].some}

Returned(log, k) == FoundAt(log, k) # {}

\* every call answered, k asked for and never found
Omitted(log, k) == AllAnswered(log) /\ Requested(log, k) /\ ~Returned(log, k)

\* the data at the last position the node returned data for k
LastData(log, k) ==
    LET last == CHOOSE p \in FoundAt(log, k) :
                    \A q \in FoundAt(log, k) :
                        q[1] < p[1] \/ (q[1] = p[1] /\ q[2] <= p[2])
    IN  log[last[1]].answer.accounts[last[2]].data

\* C5: an Append update leaves every entry the map had before the call as it
\* was, whatever the node returns and whether the call succeeds or fails; an
\* Overwrite update whose loader returns Ok leaves, for every key the node
\* returned data for, the data of the last entry returned for that key.
C5_AppendKeepsOverwriteReplaces ==
    [][call'.op = "update" =>
        /\ call'.mode = "Append" =>
              \A k \in DOMAIN inner : k \in DOMAIN inner' /\ inner'[k] = inner[k]
        /\ (call'.mode = "Overwrite" /\ AllAnswered(rpcLog')) =>
              \A k \in Range(call'.pubkeys) :
                  Returned(rpcLog', k) =>
                      k \in DOMAIN inner' /\ inner'[k] = LastData(rpcLog', k)
      ]_vars

\* an Overwrite of a key named in two batches, answered with different data:
\* the map holds the data of the second batch
C5_Witness ==
    /\ call.op = "update"
    /\ call.mode = "Overwrite"
    /\ ret = Ok(<<>>)
    /\ Len(rpcLog) = 2
    /\ \E k \in Keys :
        /\ k \in Range(rpcLog[1].keys)
        /\ rpcLog[2].keys = <<k>>
        /\ rpcLog[1].answer.accounts[1].some
        /\ rpcLog[2].answer.accounts[1].some
        /\ rpcLog[1].answer.accounts[1].data # rpcLog[2].answer.accounts[1].data
        /\ inner[k] = rpcLog[2].answer.accounts[1].data

\* C6: an update whose fetch set is empty (no key given, or Append with every
\* key present) returns Ok without calling the loader, the RPC node or
\* save_to_path, and leaves the map and the file as they were.
C6_EmptyFetchSetIsNoOp ==
    [][(/\ call'.op = "update"
        /\ \/ call'.pubkeys = <<>>
           \/ /\ call'.mode = "Append"
              /\ \A i \in 1..Len(call'.pubkeys) : call'.pubkeys[i] \in DOMAIN inner)
       => /\ ret' = Ok(<<>>)
          /\ loads' = <<>>
          /\ rpcLog' = <<>>
          /\ saves' = <<>>
          /\ inner' = inner
          /\ file' = file
      ]_vars

\* an Append naming only present keys that did nothing
C6_Witness ==
    /\ call.op = "update"
    /\ call.mode = "Append"
    /\ call.pubkeys # <<>>
    /\ \A i \in 1..Len(call.pubkeys) : call.pubkeys[i] \in DOMAIN inner
    /\ ret = Ok(<<>>)
    /\ loads = <<>>
    /\ rpcLog = <<>>
    /\ saves = <<>>

\* an Append update that follows an Append update of the same pubkeys
AppendAgain ==
    /\ call.op = "update"
    /\ call.mode = "Append"
    /\ call' = call

\* C7 as stated: the second of two Append updates of the same pubkeys fetches
\* no key that is present after the first, and leaves the map unchanged.
C7_SecondAppendChangesNothing ==
    [][AppendAgain =>
        /\ \A k \in DOMAIN inner :
              ~Requested(rpcLog', k) /\ \A i \in 1..Len(loads') : k \notin Range(loads'[i])
        /\ inner' = inner
      ]_vars

\* C7 amended: the second of two Append updates of the same pubkeys fetches
\* exactly the keys still missing after the first, leaves every entry present
\* after the first as it was, and when no key is missing fetches nothing,
\* saves nothing and leaves the map and the file as they were.
C7_SecondAppendFetchesOnlyMissing ==
    [][AppendAgain =>
        LET missing == Range(call'.pubkeys) \ DOMAIN inner IN
        /\ \A k \in DOMAIN inner :
              ~Requested(rpcLog', k) /\ \A i \in 1..Len(loads') : k \notin Range(loads'[i])
        /\ UNION {Range(loads'[i]) : i \in 1..Len(loads')} = missing
        /\ \A k \in DOMAIN inner : k \in DOMAIN inner' /\ inner'[k] = inner[k]
        /\ missing = {} => /\ inner' = inner /\ loads' = <<>> /\ rpcLog' = <<>>
                           /\ saves' = <<>> /\ file' = file
      ]_vars

\* an Append of two keys that found one present, asked for the other alone
\* and got it
C7_Witness ==
    /\ call.op = "update"
    /\ call.mode = "Append"
    /\ Len(call.pubkeys) = 2
    /\ call.pubkeys[1] # call.pubkeys[2]
    /\ loads = <<<<call.pubkeys[2]>>>>
    /\ Len(rpcLog) = 1
    /\ rpcLog[1].keys = <<call.pubkeys[2]>>
    /\ ret = Ok(<<>>)
    /\ DOMAIN inner = Range(call.pubkeys)

\* C8: an Overwrite update of a non-empty list hands the whole list to the
\* loader, present keys included, and when every batch is answered the
\* batches sent to the node are the list, in order.
C8_OverwriteFetchesEveryKey ==
    [][(call'.op = "update" /\ call'.mode = "Overwrite" /\ call'.pubkeys # <<>>)
       => /\ loads' = <<call'.pubkeys>>
          /\ AllAnswered(rpcLog') =>
                Flatten([i \in 1..Len(rpcLog') |-> rpcLog'[i].keys]) = call'.pubkeys
      ]_vars

\* an Overwrite that asked for a key the map holds: the node did not find
\* it, so the entry is the one from before the call
C8_Witness ==
    /\ call.op = "update"
    /\ call.mode = "Overwrite"
    /\ loads = <<call.pubkeys>>
    /\ \E k \in Range(call.pubkeys) : Omitted(rpcLog, k) /\ k \in DOMAIN inner

\* C9: a key the node does not find is no failure and gets no entry: with
\* every batch answered, update leaves the key as it was, takes the data
\* returned for the other keys and runs its save, the only thing that can
\* still fail it; when the file system lets the save through update returns
\* Ok and the file holds the map.  A key that is absent is asked for by every
\* update that names it.
C9_OmittedKeyIsDroppedSilently ==
    [][call'.op = "update" =>
        /\ \A k \in Keys :
              Omitted(rpcLog', k) =>
                  /\ ret' \in {Ok(<<>>), Err("PersistFailed")}
                  /\ Len(saves') = 1
                  /\ k \in DOMAIN inner' <=> k \in DOMAIN inner
                  /\ k \in DOMAIN inner => inner'[k] = inner[k]
                  /\ \A o \in Keys :
                        Returned(rpcLog', o) =>
                            o \in DOMAIN inner' /\ inner'[o] = LastData(rpcLog', o)
                  /\ saves'[1].kind = "ok"
                        => (ret' = Ok(<<>>) /\ ParseFile(file'.bytes) = Ok(inner'))
        /\ \A k \in Range(call'.pubkeys) :
              k \notin DOMAIN inner =>
                  /\ Len(loads') = 1 /\ k \in Range(loads'[1])
                  /\ Requested(rpcLog', k)
      ]_vars

\* an Append of two absent keys: the node found the second only, the map
\* took it and the file holds it
C9_Witness ==
    /\ call.op = "update"
    /\ call.mode = "Append"
    /\ Len(call.pubkeys) = 2
    /\ loads = <<call.pubkeys>>
    /\ Omitted(rpcLog, call.pubkeys[1])
    /\ Returned(rpcLog, call.pubkeys[2])
    /\ ret = Ok(<<>>)
    /\ DOMAIN inner = {call.pubkeys[2]}
    /\ inner[call.pubkeys[2]] = LastData(rpcLog, call.pubkeys[2])
    /\ saves = <<Io("ok", 0)>>
    /\ ParseFile(file.bytes) = Ok(inner)

\* C10: when a call to the node fails, the first or a later one, update
\* returns FetchFailed, runs no save and leaves the map and the file as they
\* were: nothing the earlier batches returned is merged.
C10_FetchFailureChangesNothing ==
    [][(call'.op = "update" /\ ~AllAnswered(rpcLog'))
       => /\ ret' = Err("FetchFailed")
          /\ saves' = <<>>
          /\ inner' = inner
          /\ file' = file
      ]_vars

\* the second batch failed after the first returned data for a key the map
\* does not hold
C10_Witness ==
    /\ call.op = "update"
    /\ Len(rpcLog) = 2
    /\ rpcLog[1].answer.ok
    /\ ~rpcLog[2].answer.ok
    /\ \E k \in Keys : Returned(rpcLog, k) /\ k \notin DOMAIN inner
    /\ ret = Err("FetchFailed")
    /\ saves = <<>>

----------------------------------------------------------------------------
(* The file against the map over the life of a Store *)

\* what load_from_path makes of the backing file
Reloaded == IF file.exists THEN ParseFile(file.bytes) ELSE Err("NoFile")

\* an update that merged and could not save, then update(K, Append) on the
\* same pubkeys returning Ok, the file system letting through what it saves
RetryAfterPersistFailed ==
    /\ call.op = "update"
    /\ ret = Err("PersistFailed")
    /\ Reloaded # Ok(inner)
    /\ call'.op = "update"
    /\ call'.pubkeys = call.pubkeys
    /\ call'.mode = "Append"
    /\ \A i \in 1..Len(saves') : saves'[i].kind = "ok"
    /\ ret' = Ok(<<>>)

\* C11: when update(K, mode) merged entries and failed to save, a retry
\* update(K, Append) that returns Ok leaves a file that loads as the map the
\* Store holds, the entries of the failed call included.
C11_RetryBringsFileInStep ==
    [][RetryAfterPersistFailed => Reloaded' = Ok(inner')]_vars

\* C12: after every call that returned Ok, the backing file loads as the map
\* the Store holds.
C12_FileLoadsAsMapAfterOk ==
    (opened /\ ret.tag = "Ok") => Reloaded = Ok(inner)

----------------------------------------------------------------------------
(* An update whose process dies while save_to_path writes *)

\* the file when only the first `cut` bytes of the serialization got written:
\* save_to_path writes in place, there is no temporary file and no rename
CutShort(f, bytes, cut) == FileOf(WriteOver(f.bytes, SubSeq(bytes, 1, cut)))

\* the pubkey lists of the updates that get cut short
CrashInputs == {ks \in DistinctInputs : Len(ks) = 1}

\* update fetched and merged, opened the file, and the process died with
\* `cut` bytes written; the Store is gone, inner keeps what it held
UpdateCrash ==
    /\ opened
    /\ call.op = "none"
    /\ \E pubkeys \in CrashInputs, mode \in Modes :
        \E answers \in AnswersFor(FetchPubkeys(inner, pubkeys, mode)) :
            /\ Saving(pubkeys, mode, answers)
            /\ \E rank \in Ranks :
                LET fetch_pubkeys == FetchPubkeys(inner, pubkeys, mode)
                    loaded == load_address_lookup_tables(fetch_pubkeys, answers)
                    merged == InsertAll(inner, loaded.res.value)
                    bytes == Serialize(merged, IterOrder(merged, rank))
                IN  \E cut \in 0..Len(bytes) :
                        /\ file' = CutShort(file, bytes, cut)
                        /\ inner' = merged
                        /\ opened' = FALSE
                        /\ call' = CallOf("update", pubkeys, mode)
                        /\ ret' = NotCalled
                        /\ loads' = <<fetch_pubkeys>>
                        /\ rpcLog' = loaded.log
                        /\ saves' = <<Io("crash", cut)>>
                        /\ UNCHANGED <<lookups, clones>>

NextCrash == UpdateCrash \/ LoadOrCreate

SpecCrash == InitUpdate /\ [][NextCrash]_vars

\* C13: whenever an update stops, at any point of its save, a file that
\* loaded before loads afterwards, as the map it held before or as the map
\* the update was saving.
C13_SaveIsAtomic ==
    [][(call'.op = "update" /\ Reloaded.tag = "Ok")
        => Reloaded' \in {Reloaded, Ok(inner')}]_vars

----------------------------------------------------------------------------
(* save_to_path and load_or_create against any file *)

\* the files Stores leave at a path: a serialization of some map, or the
\* empty file of new_with_path
DiskFiles == UNION {FilesOf(m) : m \in Maps}

\* account data longer than the buffer of the BufWriter
LongData == TableHeader \o [i \in 1..BUF_WRITER_CAPACITY |-> i % 256]

\* a map whose serialization takes two writes
LongMap == [k \in {CHOOSE k \in Keys : TRUE} |-> LongData]

\* the lengths at which the writes of a save fail: those of any call, and one
\* past the first write of the long map
SaveCuts == WriteCuts \cup {BUF_WRITER_CAPACITY + 8}

\* a Store holding any map, at a path holding any such file
InitSave ==
    /\ inner \in Maps \cup {LongMap}
    /\ file \in DiskFiles
    /\ opened = TRUE
    /\ lookups = <<>>
    /\ call = CallOf("none", <<>>, "-")
    /\ ret = NotCalled
    /\ loads = <<>>
    /\ rpcLog = <<>>
    /\ saves = <<>>
    /\ clones = <<>>

\* a call of save_to_path on the Store
SaveWith(cuts, onces) ==
    /\ opened
    /\ \E io \in IoOutcomes(cuts, onces), rank \in RanksOver(DOMAIN inner) :
        \E r \in {save_to_path(inner, file, io, IterOrder(inner, rank))} :
        /\ call' = CallOf("save_to_path", <<>>, "-")
        /\ ret' = r.res
        /\ file' = r.file
        /\ loads' = <<>>
        /\ rpcLog' = <<>>
        /\ saves' = <<io>>
        /\ UNCHANGED <<inner, opened, lookups, clones>>

Save == SaveWith(SaveCuts, WriteOnces)

NextSave == Save \/ LoadOrCreate

SpecSave == InitSave /\ [][NextSave]_vars

\* C14: load_or_create right after a save_to_path that returned Ok, when its
\* own open of the file works, returns the map the Store saved, whatever the
\* file held before the save.
C14_SaveThenLoadReturnsMap ==
    [][(/\ call.op = "save_to_path"
        /\ ret = Ok(<<>>)
        /\ call'.op = "load_or_create"
        /\ ret' # Err("IoError"))
        => (ret' = Ok(<<>>) /\ inner' = inner)]_vars

----------------------------------------------------------------------------
(* load_or_create on any path *)

\* every file cut at every length
Prefixes(bytes) == {SubSeq(bytes, 1, n) : n \in 0..Len(bytes)}

\* what a path may hold: nothing, or a file Stores left there, whole or cut
LoadFiles == {NoFile} \cup {FileOf(p) : p \in UNION {Prefixes(f.bytes) : f \in DiskFiles}}

InitLoad ==
    /\ inner = EmptyMap
    /\ file \in LoadFiles
    /\ opened = FALSE
    /\ lookups = <<>>
    /\ call = CallOf("none", <<>>, "-")
    /\ ret = NotCalled
    /\ loads = <<>>
    /\ rpcLog = <<>>
    /\ saves = <<>>
    /\ clones = <<>>

NextLoad == LoadOrCreate

SpecLoad == InitLoad /\ [][NextLoad]_vars

\* the maps some serialization of which the bytes start with
WrittenMaps(bytes) ==
    {m \in Maps : \E order \in Orders(DOMAIN m) :
        /\ Len(Serialize(m, order)) <= Len(bytes)
        /\ SubSeq(bytes, 1, Len(Serialize(m, order))) = Serialize(m, order)}

\* load_or_create on a file: a Store with the map the file holds and the file
\* left alone, or StoreCorrupt, no Store and the file left alone
LoadsOrRefuses ==
    IF WrittenMaps(file.bytes) # {}
    THEN ret' = Ok(<<>>) /\ opened' /\ WrittenMaps(file.bytes) = {inner'} /\ file' = file
    ELSE /\ ret' = Err("StoreCorrupt")
         /\ opened' = opened
         /\ inner' = inner
         /\ file' = file

\* load_or_create on a path with no file: an empty file and a Store with an
\* empty map
Creates == ret' = Ok(<<>>) /\ opened' /\ inner' = EmptyMap /\ file' = FileOf(<<>>)

\* C15 as stated: load_or_create has exactly three outcomes.  On a path with
\* no file it creates an empty file and returns a Store with an empty map; on
\* a file that holds the serialization of a map it returns a Store with that
\* map and leaves the file; on any other file it fails with StoreCorrupt,
\* returns no Store and leaves the file.
C15_LoadOrCreateOutcomes ==
    [][call'.op = "load_or_create" =>
        IF ~file.exists THEN Creates ELSE LoadsOrRefuses]_vars

\* C15 amended: load_or_create has those three outcomes and a fourth, on any
\* path: the file system refuses the open, the call fails with that error,
\* returns no Store, creates no file and leaves the file there is.
C15_LoadOrCreateOutcomesOrIoError ==
    [][call'.op = "load_or_create" =>
        \/ /\ ret' = Err("IoError")
           /\ opened' = opened
           /\ inner' = inner
           /\ file' = file
        \/ IF ~file.exists THEN Creates ELSE LoadsOrRefuses
      ]_vars

\* the creation of the file was refused: an error, no Store and still no file
C15_Witness ==
    /\ call.op = "load_or_create"
    /\ ret = Err("IoError")
    /\ ~opened
    /\ ~file.exists
    /\ inner = EmptyMap

----------------------------------------------------------------------------
(* Two clones of a Store updating at the same time *)

\* how many clones of the Store update at once
NumClones == 2

Handles == 1..NumClones

\* Store derives Clone: the clone has the path and a copy of the map.  With
\* it go the position of its update, and for its save the buffers still to be
\* sent (out), the offset of its file handle (off) and what the file system
\* does to its writes while the save runs (io)
CloneOf(map) ==
    [inner |-> map, pc |-> "idle", ret |-> NotCalled, out |-> <<>>, off |-> 0,
     io |-> Io("ok", 0)]

\* a Store whose file holds its map, and its clones before their updates
InitClones ==
    /\ inner \in SourceMaps \cup {LongMap}
    /\ file \in FilesOf(inner) \ {FileOf(<<>>)}
    /\ opened = TRUE
    /\ lookups = <<>>
    /\ call = CallOf("none", <<>>, "-")
    /\ ret = NotCalled
    /\ loads = <<>>
    /\ rpcLog = <<>>
    /\ saves = <<>>
    /\ clones = [p \in Handles |-> CloneOf(inner)]

\* update on clone p up to its save_to_path: the fetch set, the loader and
\* the inserts touch the clone's own map only
Merge(p) ==
    /\ clones[p].pc = "idle"
    /\ \E pubkeys \in CrashInputs, mode \in Modes :
        \E answers \in AnswersFor(FetchPubkeys(clones[p].inner, pubkeys, mode)) :
            LET fetch_pubkeys == FetchPubkeys(clones[p].inner, pubkeys, mode)
                loaded == load_address_lookup_tables(fetch_pubkeys, answers)
            IN  clones' = [clones EXCEPT ![p] =
                    IF fetch_pubkeys = <<>>
                    THEN [@ EXCEPT !.pc = "done", !.ret = Ok(<<>>)]
                    ELSE IF loaded.res.tag = "Err"
                    THEN [@ EXCEPT !.pc = "done", !.ret = loaded.res]
                    ELSE [@ EXCEPT !.inner = InsertAll(@, loaded.res.value),
                                   !.pc = "persist"]]
    /\ UNCHANGED <<inner, file, opened, lookups, call, ret, loads, rpcLog, saves>>

\* the bytes cut into pieces of the given lengths
RECURSIVE Split(_, _)
Split(bytes, lens) ==
    IF lens = <<>> THEN <<>>
    ELSE <<SubSeq(bytes, 1, Head(lens))>>
            \o Split(SubSeq(bytes, Head(lens) + 1, Len(bytes)), Tail(lens))

\* save_to_path of clone p's update opens the file all clones share: the
\* handle starts at offset 0 and no lock is taken; out is what the BufWriter
\* will send to the file, buffer by buffer, the last one from its drop
PersistOpen(p) ==
    /\ clones[p].pc = "persist"
    /\ \E io \in IoOutcomes(SaveCuts, WriteOnces),
          rank \in RanksOver(DOMAIN clones[p].inner) :
        LET order == IterOrder(clones[p].inner, rank) IN
        clones' = [clones EXCEPT ![p] =
            IF ~file.exists \/ io.kind = "open_err"
            THEN [@ EXCEPT !.pc = "done", !.ret = Err("PersistFailed")]
            ELSE [@ EXCEPT !.pc = "writing", !.off = 0, !.io = io,
                           !.out = Split(Serialize(clones[p].inner, order),
                                         WriteBlocks(clones[p].inner, order))]]
    /\ UNCHANGED <<inner, file, opened, lookups, call, ret, loads, rpcLog, saves>>

\* the write(2) of clone p that is due returns an error
WriteRefused(p) ==
    \/ clones[p].io.kind = "write_err" /\ clones[p].io.cut = clones[p].off
    \/ clones[p].io.kind = "write_once" /\ clones[p].io.cut = clones[p].off

\* how many bytes the write(2) of clone p that is due takes: all it is
\* given, or those up to the length at which the writes fail
WriteTakes(p) ==
    LET given == Len(Head(clones[p].out))
        room == clones[p].io.cut - clones[p].off
    IN  IF clones[p].io.kind = "write_err" /\ 0 <= room /\ room < given
        THEN room ELSE given

\* one write(2) of clone p's save, at the offset its handle has reached.
\* BufWriter::flush_buf calls write until the buffer is sent: a write that
\* takes less leaves the rest for the next call.  A write that returns an
\* error ends the flush: inside serialize_into the error becomes the result
\* of the update and the BufWriter, dropped on the way out, sends the buffer
\* it failed on once more; in that flush of the drop, as in the one after
\* serialize_into has returned, the error is lost
PersistWrite(p) ==
    /\ clones[p].pc = "writing"
    /\ LET buffer == Head(clones[p].out)
           off == clones[p].off
           dropping == Len(clones[p].out) = 1
           failed == clones[p].ret.tag = "Err"
           taken == WriteTakes(p)
       IN  IF WriteRefused(p)
           THEN /\ file' = file
                /\ clones' = [clones EXCEPT ![p] =
                     IF dropping
                     THEN [@ EXCEPT !.pc = "done", !.out = <<>>, !.io = Io("ok", 0),
                                    !.ret = IF failed THEN clones[p].ret ELSE Ok(<<>>)]
                     ELSE [@ EXCEPT !.out = <<buffer>>, !.ret = Err("PersistFailed"),
                                    !.io = IF clones[p].io.kind = "write_once"
                                           THEN Io("ok", 0) ELSE clones[p].io]]
           ELSE /\ file' = FileOf(WriteAt(file.bytes, off, SubSeq(buffer, 1, taken)))
                /\ clones' = [clones EXCEPT ![p] =
                     IF taken < Len(buffer)
                     THEN [@ EXCEPT !.off = off + taken,
                                    !.out = <<SubSeq(buffer, taken + 1, Len(buffer))>>
                                               \o Tail(clones[p].out)]
                     ELSE IF dropping
                     THEN [@ EXCEPT !.pc = "done", !.out = <<>>, !.off = off + taken,
                                    !.io = Io("ok", 0),
                                    !.ret = IF failed THEN clones[p].ret ELSE Ok(<<>>)]
                     ELSE [@ EXCEPT !.out = Tail(clones[p].out), !.off = off + taken]]
    /\ UNCHANGED <<inner, opened, lookups, call, ret, loads, rpcLog, saves>>

NextClones == \E p \in Handles : Merge(p) \/ PersistOpen(p) \/ PersistWrite(p)

SpecClones == InitClones /\ [][NextClones]_vars

\* C16 (a): no two updates are at their save at once
OnePersistAtATime ==
    Cardinality({p \in Handles : clones[p].pc \in {"persist", "writing"}}) <= 1

\* C16 (b): when every update has returned Ok the file loads, and holds
\* every key any clone holds
NoUpdateLost ==
    (\A p \in Handles : clones[p].pc = "done" /\ clones[p].ret = Ok(<<>>))
        => /\ Reloaded.tag = "Ok"
           /\ \A p \in Handles : DOMAIN clones[p].inner \subseteq DOMAIN Reloaded.value

\* C16: of the updates running at once on clones of a Store at most one is
\* at its save at any time, and when all have returned Ok the file holds
\* every entry any of them merged.
C16_UpdatesSerializeNoneLost == OnePersistAtATime /\ NoUpdateLost

----------------------------------------------------------------------------
(* The Store over its life with every call it offers *)

\* two messages of one lookup each: the first address of one table twice, and
\* the first address of the other with the index one past the largest table
StoredLookups ==
    {<<[account_key |-> Pubkey(1), writable_indexes |-> <<0>>, readonly_indexes |-> <<0>>]>>,
     <<[account_key |-> Pubkey(NumKeys), writable_indexes |-> <<0>>,
        readonly_indexes |-> <<MaxAddrs>>]>>}

\* a call of contains_key on the Store
Contains ==
    /\ opened
    /\ \E pubkey \in Keys :
        /\ call' = CallOf("contains_key", <<pubkey>>, "-")
        /\ ret' = Ok(contains_key(inner, pubkey))
    /\ loads' = <<>>
    /\ rpcLog' = <<>>
    /\ saves' = <<>>
    /\ UNCHANGED <<inner, file, opened, lookups, clones>>

\* a load_addresses that throws away the table it cannot decode
ResolveStoredEvicting ==
    /\ opened
    /\ \E ls \in StoredLookups :
        /\ lookups' = ls
        /\ call' = CallOf("load_addresses", <<>>, "-")
        /\ ret' = load_addresses(inner, ls)
        /\ inner' = IF load_addresses(inner, ls) = Err("InvalidAccountData")
                    THEN [k \in DOMAIN inner \ {ls[1].account_key} |-> inner[k]]
                    ELSE inner
    /\ loads' = <<>>
    /\ rpcLog' = <<>>
    /\ saves' = <<>>
    /\ UNCHANGED <<file, opened, clones>>

\* a call of load_addresses on the Store
ResolveStored ==
    /\ opened
    /\ \E ls \in StoredLookups :
        /\ lookups' = ls
        /\ call' = CallOf("load_addresses", <<>>, "-")
        /\ ret' = load_addresses(inner, ls)
    /\ loads' = <<>>
    /\ rpcLog' = <<>>
    /\ saves' = <<>>
    /\ UNCHANGED <<inner, file, opened, clones>>

\* the pubkey lists of the updates of this life: none or one key
OneKeyInputs == {ks \in DistinctInputs : Len(ks) <= 1}

UpdateOneKey ==
    /\ opened
    /\ \E pubkeys \in OneKeyInputs, mode \in Modes : UpdateWith(pubkeys, mode, LifeCuts, {})

SaveStored == SaveWith(LifeCuts, {})

NextStore == LoadOrCreate \/ UpdateOneKey \/ SaveStored \/ Contains \/ ResolveStored

SpecStore == Init /\ [][NextStore]_vars

----------------------------------------------------------------------------
(* Properties of the Store over its life *)

\* C17: contains_key and load_addresses, whatever they return, leave the map
\* and the file as they were, call no loader and run no save.
C17_ReadsChangeNothing ==
    [][call'.op \in {"contains_key", "load_addresses"}
        => /\ inner' = inner
           /\ file' = file
           /\ loads' = <<>>
           /\ rpcLog' = <<>>
           /\ saves' = <<>>
      ]_vars

\* load_addresses refused a table that does not decode; the Store still holds
\* it and the file still loads as the map
C17_Witness ==
    /\ call.op = "load_addresses"
    /\ ret = Err("InvalidAccountData")
    /\ lookups[1].account_key \in DOMAIN inner
    /\ inner[lookups[1].account_key] = SlopData
    /\ Reloaded = Ok(inner)

\* C20: update, contains_key, load_addresses and save_to_path remove no key
\* from the map; an Overwrite update keeps the data of a present key the node
\* no longer returns, and saves it again: when the file system lets the save
\* through, the file holds the key with that data.
C20_KeysOnlyGrow ==
    [][call'.op \in {"update", "contains_key", "load_addresses", "save_to_path"}
        => /\ DOMAIN inner \subseteq DOMAIN inner'
           /\ (call'.op = "update" /\ call'.mode = "Overwrite")
                => \A k \in Range(call'.pubkeys) \cap DOMAIN inner :
                      Omitted(rpcLog', k)
                        => /\ inner'[k] = inner[k]
                           /\ Len(saves') = 1
                           /\ saves'[1].kind = "ok"
                                => /\ ret' = Ok(<<>>)
                                   /\ Reloaded'.tag = "Ok"
                                   /\ k \in DOMAIN Reloaded'.value
                                   /\ Reloaded'.value[k] = inner[k]
      ]_vars

\* an Overwrite update of a present key the node did not return: the key is
\* still there and the file was saved with it
C20_Witness ==
    /\ call.op = "update"
    /\ call.mode = "Overwrite"
    /\ Len(call.pubkeys) = 1
    /\ call.pubkeys[1] \in DOMAIN inner
    /\ Omitted(rpcLog, call.pubkeys[1])
    /\ ret = Ok(<<>>)
    /\ saves = <<Io("ok", 0)>>
    /\ Reloaded = Ok(inner)

----------------------------------------------------------------------------
(* load_address_lookup_tables on its own *)

\* pubkey lists of one batch less one key, then a second key, then nothing,
\* one more key, one more batch, or one more batch and a key: RPC_CHUNK,
\* RPC_CHUNK + 1, 2 * RPC_CHUNK and 2 * RPC_CHUNK + 1 keys
BatchInputs ==
    {Repeat(k, RPC_CHUNK - 1) \o <<l>> \o tail :
        <<k, l, tail>> \in
            {<<k, l, tail>> \in Keys \X Keys \X
                    UNION {{<<>>, <<a>>, Repeat(a, RPC_CHUNK), Repeat(a, RPC_CHUNK) \o <<b>>} :
                            <<a, b>> \in Keys \X Keys} : TRUE}}

LoaderInputs == ShortInputs \cup BatchInputs

\* a call of load_address_lookup_tables, which needs no Store
Load ==
    /\ call.op = "none"
    /\ \E pubkeys \in LoaderInputs :
        \E answers \in AnswersFor(pubkeys) :
            \E r \in {load_address_lookup_tables(pubkeys, answers)} :
            /\ call' = CallOf("load_address_lookup_tables", pubkeys, "-")
            /\ ret' = r.res
            /\ loads' = <<pubkeys>>
            /\ rpcLog' = r.log
            /\ saves' = <<>>
    /\ UNCHANGED <<inner, file, opened, lookups, clones>>

NextLoader == Load

SpecLoader == Init /\ [][NextLoader]_vars

\* the account the node returned for position p of the pubkey list, read off
\* the log of an answered load
AccountAt(log, p) ==
    log[((p - 1) \div RPC_CHUNK) + 1].answer.accounts[((p - 1) % RPC_CHUNK) + 1]

\* the list with, at each position, what the node returned there
Answered(ks, log) ==
    [p \in 1..Len(ks) |->
        [pubkey |-> ks[p], data |-> AccountAt(log, p).data, some |-> AccountAt(log, p).some]]

\* C18: the loader sends the list to the node in consecutive batches of
\* RPC_CHUNK keys, the last one holding the rest, stopping at a call that
\* fails; when every call is answered there are ceil(n / RPC_CHUNK) calls and
\* the result lists, in the order of the positions, each key whose position
\* was found with the data returned at that position; a list without
\* repeated keys gets at most one entry per key.
C18_BatchesOfAHundredInOrder ==
    [][call'.op = "load_address_lookup_tables" =>
        LET ks == call'.pubkeys
            n == Len(ks)
            log == rpcLog'
            calls == (n + RPC_CHUNK - 1) \div RPC_CHUNK
        IN  /\ Len(log) <= calls
            /\ \A i \in 1..Len(log) :
                  /\ log[i].keys =
                        SubSeq(ks, (i - 1) * RPC_CHUNK + 1,
                               IF i * RPC_CHUNK <= n THEN i * RPC_CHUNK ELSE n)
                  /\ i < Len(log) => log[i].answer.ok
            /\ AllAnswered(log) <=> ret'.tag = "Ok"
            /\ AllAnswered(log) =>
                  /\ Len(log) = calls
                  /\ [j \in 1..Len(ret'.value) |->
                        [pubkey |-> ret'.value[j].pubkey, data |-> ret'.value[j].data,
                         some |-> TRUE]]
                     = SelectSeq(Answered(ks, log), LAMBDA e : e.some)
                  /\ Cardinality(Range(ks)) = n
                        => \A i, j \in 1..Len(ret'.value) :
                              i # j => ret'.value[i].pubkey # ret'.value[j].pubkey
      ]_vars

\* three answered calls for 2 * RPC_CHUNK + 1 keys, with both keys of the
\* first batch found
C18_Witness ==
    /\ call.op = "load_address_lookup_tables"
    /\ Len(call.pubkeys) = 2 * RPC_CHUNK + 1
    /\ Len(rpcLog) = 3
    /\ AllAnswered(rpcLog)
    /\ ret.tag = "Ok"
    /\ Len(ret.value) >= RPC_CHUNK
    /\ ret.value[RPC_CHUNK - 1].pubkey # ret.value[RPC_CHUNK].pubkey

----------------------------------------------------------------------------
(* The order in which resolution meets faults (SpecResolve) *)

\* what is wrong with a lookup taken by itself: its table is missing, or is
\* there and does not decode, or decodes and is too short for an index
FaultOf(lookup) ==
    IF lookup.account_key \notin DOMAIN inner THEN "LookupTableAccountNotFound"
    ELSE IF ~Decodable(lookup) THEN "InvalidAccountData"
    ELSE IF ~InRange(lookup) THEN "InvalidLookupIndex"
    ELSE "none"

Faulty == {i \in 1..Len(lookups) : FaultOf(lookups[i]) # "none"}

\* C19: load_addresses returns the error of the first faulty lookup of the
\* message, whatever is wrong with the lookups after it; for one lookup a
\* missing table comes before a table that does not decode, and that before
\* an index past the end; with no faulty lookup it returns Ok.
C19_FirstFaultWins ==
    Resolved =>
        IF Faulty = {} THEN ret.tag = "Ok"
        ELSE ret = Err(FaultOf(lookups[CHOOSE i \in Faulty : \A j \in Faulty : i <= j]))

\* an index past the end in the first lookup, a missing table in the second
C19_Witness ==
    /\ Resolved
    /\ Len(lookups) = 2
    /\ FaultOf(lookups[1]) = "InvalidLookupIndex"
    /\ FaultOf(lookups[2]) = "LookupTableAccountNotFound"
    /\ ret = Err("InvalidLookupIndex")

====
